---- MODULE Spec2Model ----
(***************************************************************************)
(* Model of ChannelDetector (src/channel_detector.py): the sliding window  *)
(* of peaks, troughs and candles, the line factory, the three-stage line    *)
(* validator and the incremental engine behind add_pivot.                   *)
(*                                                                         *)
(* Timestamps are integer epoch milliseconds.  Prices are integers.  The    *)
(* source computes slope, intercept, line price and penetration percentage *)
(* in binary floating point; the model computes the same expressions in    *)
(* exact rational arithmetic (pairs <<numerator, denominator>>, reduced,    *)
(* denominator > 0).  open/close/volume of a candle are never read by the   *)
(* detector and are left out of the candle record.                          *)
(***************************************************************************)
EXTENDS Integers, Sequences, FiniteSets, TLC

VARIABLES
    config,              \* constructor arguments, fixed at construction
    peaks_list,          \* self.peaks_list
    troughs_list,        \* self.troughs_list
    candles_list,        \* self.candles_list
    next_pivot_id,       \* self._next_pivot_id
    upper_lines,         \* self.upper_lines
    lower_lines,         \* self.lower_lines
    created_line_pairs,  \* self.created_line_pairs
    op,                  \* the call that produced this state
    ret,                 \* what that call returned
    evicted,             \* pivot ids the last add_pivot call removed
    cascaded,            \* endpoint pairs of the lines that call dropped with them
    dropped,             \* number of candles that call removed
    built,               \* number of candidate lines that call built
    issued,              \* ids returned by add_pivot since the last reset
    dead_pairs,          \* endpoint pairs of lines removed since the last reset
    clock,               \* timestamp of the newest candle fed since the last reset
    fresh,               \* a freshly constructed detector fed the calls made since the last reset
    fresh_ret,           \* what its last call returned
    epoch,               \* number of resets counted so far (SpecReset only)
    probe,               \* last direct create_line + validate_single_line call
    synced,              \* number of candles at the front of candles_list that were
                         \* stored when a pivot was last evicted
    threads              \* the callers of a multi-threaded host: where each one is
                         \* inside add_pivot, its locals, and the instance lock

vars == <<config, peaks_list, troughs_list, candles_list, next_pivot_id,
          upper_lines, lower_lines, created_line_pairs, op, ret, evicted,
          cascaded, dropped, built, issued, dead_pairs, clock, fresh,
          fresh_ret, epoch, probe, synced, threads>>

-----------------------------------------------------------------------------
(* Bounds of the model *)

\* timestamps fed to the detector are 0 .. MaxTick candle intervals
MaxTick == 2
\* max_pivots is drawn from 1 .. MaxPivotsBound
MaxPivotsBound == 3
\* at most MaxIds pivots are inserted between two resets
MaxIds == 3
\* a candle is fed only while candles_list holds fewer than MaxCandles
MaxCandles == 2
\* the pivots of a same-type stream have timestamps 0 .. MaxStreamTick candle intervals
MaxStreamTick == 4
\* a same-type stream has at most MaxStreamIds pivots
MaxStreamIds == 5

\* candles stored in a run of candle-aligned records
MaxAlignedCandles == 3

-----------------------------------------------------------------------------
(* Python's None and optional values *)

None == <<>>
Some(x) == <<x>>
Val(o) == o[1]

-----------------------------------------------------------------------------
(* Exact rationals standing for the source's float arithmetic *)

Abs(x) == IF x < 0 THEN -x ELSE x

RECURSIVE GCD(_, _)
GCD(a, b) == IF b = 0 THEN a ELSE GCD(b, a % b)

Rat(n, d) ==
    LET g == GCD(Abs(n), Abs(d))
        s == IF d < 0 THEN -1 ELSE 1
    IN  <<(s * n) \div g, (s * d) \div g>>

RInt(n) == <<n, 1>>
RAdd(a, b) == Rat(a[1] * b[2] + b[1] * a[2], a[2] * b[2])
RSub(a, b) == Rat(a[1] * b[2] - b[1] * a[2], a[2] * b[2])
RMul(a, b) == Rat(a[1] * b[1], a[2] * b[2])
RDiv(a, b) == Rat(a[1] * b[2], a[2] * b[1])
RAbs(a) == <<Abs(a[1]), a[2]>>
RLt(a, b) == a[1] * b[2] < b[1] * a[2]
RGt(a, b) == RLt(b, a)

-----------------------------------------------------------------------------
(* The detector object *)

\* self.candle_interval_ms
candle_interval_ms == 15 * 60 * 1000

\* ChannelDetector.__init__
Construct(cfg) ==
    [ max_pivots              |-> cfg.max_pivots,
      max_age_ms              |-> cfg.max_age_ms,
      max_slope               |-> cfg.max_slope,
      min_distance_candles    |-> cfg.min_distance_candles,
      max_penetration_pct     |-> cfg.max_penetration_pct,
      max_penetrating_candles |-> cfg.max_penetrating_candles,
      candle_interval_ms      |-> candle_interval_ms,
      peaks_list              |-> <<>>,
      troughs_list            |-> <<>>,
      candles_list            |-> <<>>,
      next_pivot_id           |-> 0,
      upper_lines             |-> <<>>,
      lower_lines             |-> <<>>,
      created_line_pairs      |-> {} ]

\* the detector as the state variables hold it
Self ==
    [ max_pivots              |-> config.max_pivots,
      max_age_ms              |-> config.max_age_ms,
      max_slope               |-> config.max_slope,
      min_distance_candles    |-> config.min_distance_candles,
      max_penetration_pct     |-> config.max_penetration_pct,
      max_penetrating_candles |-> config.max_penetrating_candles,
      candle_interval_ms      |-> candle_interval_ms,
      peaks_list              |-> peaks_list,
      troughs_list            |-> troughs_list,
      candles_list            |-> candles_list,
      next_pivot_id           |-> next_pivot_id,
      upper_lines             |-> upper_lines,
      lower_lines             |-> lower_lines,
      created_line_pairs      |-> created_line_pairs ]

\* to_ms on a numeric timestamp: int(ts).  Every timestamp of the model is
\* an integer number of milliseconds, the isinstance branch of the source.
to_ms(ts) == ts

-----------------------------------------------------------------------------
(* PHAN 2: line factory *)

\* tuple(sorted([a, b]))
sorted_pair(a, b) == IF a <= b THEN <<a, b>> ELSE <<b, a>>

\* mutant of create_line: the intercept is taken from the second point's
\* price at the first point's timestamp
create_line_intercept_mixed(point1, point2) ==
    LET x1 == point1.timestamp
        y1 == point1.price
        x2 == point2.timestamp
        y2 == point2.price
        slope == Rat(y2 - y1, x2 - x1)
        intercept == RSub(RInt(y2), RMul(slope, RInt(x1)))
    IN  IF x2 = x1
        THEN None
        ELSE Some([ id        |-> <<"line", point1.id, point2.id>>,
                    point1    |-> point1,
                    point2    |-> point2,
                    slope     |-> slope,
                    intercept |-> intercept,
                    type      |-> IF point1.type = "peak" THEN "upper" ELSE "lower",
                    point_ids |-> <<point1.id, point2.id>> ])

\* ChannelDetector.create_line: None for two points sharing a timestamp
create_line(point1, point2) ==
    LET x1 == point1.timestamp
        y1 == point1.price
        x2 == point2.timestamp
        y2 == point2.price
        slope == Rat(y2 - y1, x2 - x1)
        intercept == RSub(RInt(y1), RMul(slope, RInt(x1)))
    IN  IF x2 = x1
        THEN None
        ELSE Some([ id        |-> <<"line", point1.id, point2.id>>,
                    point1    |-> point1,
                    point2    |-> point2,
                    slope     |-> slope,
                    intercept |-> intercept,
                    type      |-> IF point1.type = "peak" THEN "upper" ELSE "lower",
                    point_ids |-> <<point1.id, point2.id>> ])

-----------------------------------------------------------------------------
(* PHAN 3: validation of one line *)

\* mutant of line_price: the intercept is left out
line_price_without_intercept(line, candle_ts) ==
    RMul(line.slope, RInt(candle_ts))

\* line_price = slope * candle_ts + intercept
line_price(line, candle_ts) ==
    RAdd(RMul(line.slope, RInt(candle_ts)), line.intercept)

\* mutant of candles_between: the candles at the endpoint timestamps count too
candles_between_inclusive(self, line) ==
    LET ts1 == line.point1.timestamp
        ts2 == line.point2.timestamp
        start_ts == IF ts1 <= ts2 THEN ts1 ELSE ts2
        end_ts == IF ts1 <= ts2 THEN ts2 ELSE ts1
        Between(candle) == start_ts <= to_ms(candle.timestamp)
                           /\ to_ms(candle.timestamp) <= end_ts
    IN  SelectSeq(self.candles_list, Between)

\* the candles strictly between the two endpoint timestamps
candles_between(self, line) ==
    LET ts1 == line.point1.timestamp
        ts2 == line.point2.timestamp
        start_ts == IF ts1 <= ts2 THEN ts1 ELSE ts2
        end_ts == IF ts1 <= ts2 THEN ts2 ELSE ts1
        Between(candle) == start_ts < to_ms(candle.timestamp)
                           /\ to_ms(candle.timestamp) < end_ts
    IN  SelectSeq(self.candles_list, Between)

\* does the candle cross the line (high above an upper line, low under a lower one)
penetrates(line, candle) ==
    LET lp == line_price(line, to_ms(candle.timestamp))
    IN  IF line.type = "upper"
        THEN RGt(RInt(candle.high), lp)
        ELSE RLt(RInt(candle.low), lp)

\* penetration_pct of a crossing candle, in percent of the line price
penetration_pct(line, candle) ==
    LET lp == line_price(line, to_ms(candle.timestamp))
    IN  IF line.type = "upper"
        THEN RMul(RDiv(RSub(RInt(candle.high), lp), lp), RInt(100))
        ELSE RMul(RDiv(RSub(lp, RInt(candle.low)), lp), RInt(100))

\* the penetrating_candles list: one penetration_pct per crossing candle
penetrating_candles(self, line) ==
    LET between == candles_between(self, line)
        Crosses(candle) == penetrates(line, candle)
        crossing == SelectSeq(between, Crosses)
    IN  [i \in 1..Len(crossing) |-> penetration_pct(line, crossing[i])]

\* mutant of check_line_penetration: a penetration equal to
\* max_penetration_pct is rejected too
check_line_penetration_inclusive(self, line) ==
    IF Len(self.candles_list) = 0
    THEN [valid |-> TRUE, reason |-> "OK"]
    ELSE IF Len(candles_between(self, line)) = 0
    THEN [valid |-> TRUE, reason |-> "OK"]
    ELSE LET pens == penetrating_candles(self, line)
         IN  IF Len(pens) > self.max_penetrating_candles
             THEN [valid |-> FALSE, reason |-> "too many penetrating candles"]
             ELSE IF \E i \in 1..Len(pens) : ~RLt(pens[i], self.max_penetration_pct)
             THEN [valid |-> FALSE, reason |-> "penetration too deep"]
             ELSE [valid |-> TRUE, reason |-> "OK"]

\* ChannelDetector._check_line_penetration
check_line_penetration(self, line) ==
    IF Len(self.candles_list) = 0
    THEN [valid |-> TRUE, reason |-> "OK"]
    ELSE IF Len(candles_between(self, line)) = 0
    THEN [valid |-> TRUE, reason |-> "OK"]
    ELSE LET pens == penetrating_candles(self, line)
         IN  IF Len(pens) > self.max_penetrating_candles
             THEN [valid |-> FALSE, reason |-> "too many penetrating candles"]
             ELSE IF \E i \in 1..Len(pens) : RGt(pens[i], self.max_penetration_pct)
             THEN [valid |-> FALSE, reason |-> "penetration too deep"]
             ELSE [valid |-> TRUE, reason |-> "OK"]

\* mutant of slope_too_large: the slope is compared without abs()
slope_too_large_signed(self, line) ==
    /\ self.max_slope # None
    /\ RGt(line.slope, Val(self.max_slope))

\* check 1 of validate_single_line: the slope bound
slope_too_large(self, line) ==
    /\ self.max_slope # None
    /\ RGt(RAbs(line.slope), Val(self.max_slope))

\* mutant of too_close: the time distance is taken without abs()
too_close_signed(self, line) ==
    LET time_distance_ms == line.point2.timestamp - line.point1.timestamp
        num_candles == Rat(time_distance_ms, self.candle_interval_ms)
    IN  RLt(num_candles, RInt(self.min_distance_candles))

\* check 2 of validate_single_line: num_candles < min_distance_candles
too_close(self, line) ==
    LET time_distance_ms == Abs(line.point2.timestamp - line.point1.timestamp)
        num_candles == Rat(time_distance_ms, self.candle_interval_ms)
    IN  RLt(num_candles, RInt(self.min_distance_candles))

\* mutant of validate_single_line: the spacing is checked before the slope
validate_single_line_spacing_first(self, line) ==
    IF too_close(self, line)
    THEN [valid |-> FALSE, reason |-> "points too close"]
    ELSE IF slope_too_large(self, line)
    THEN [valid |-> FALSE, reason |-> "slope too large"]
    ELSE check_line_penetration(self, line)

\* ChannelDetector.validate_single_line
validate_single_line(self, line) ==
    IF slope_too_large(self, line)
    THEN [valid |-> FALSE, reason |-> "slope too large"]
    ELSE IF too_close(self, line)
    THEN [valid |-> FALSE, reason |-> "points too close"]
    ELSE check_line_penetration(self, line)

\* the division by line_price at lines 635 and 643 raises ZeroDivisionError:
\* a candle strictly between the endpoints crosses the line where the line
\* price is zero
zero_division(self, line) ==
    LET between == candles_between(self, line)
    IN  \E i \in 1..Len(between) :
            /\ penetrates(line, between[i])
            /\ line_price(line, to_ms(between[i].timestamp)) = RInt(0)

\* validate_single_line raises instead of returning: the penetration
\* analysis is reached and divides by zero
validate_single_line_raises(self, line) ==
    /\ ~slope_too_large(self, line)
    /\ ~too_close(self, line)
    /\ zero_division(self, line)

\* the lines of a list that validate_single_line accepts, in order
valid_lines(self, lines) ==
    LET Ok(line) == validate_single_line(self, line).valid
    IN  SelectSeq(lines, Ok)

\* the point_ids of the lines of a list that validate_single_line rejects
rejected_ids(self, lines) ==
    { lines[i].point_ids : i \in { j \in 1..Len(lines) :
                                     ~validate_single_line(self, lines[j]).valid } }

\* mutant of update_valid_lines: only upper_lines is filtered
update_valid_lines_upper_only(self) ==
    [self EXCEPT
        !.upper_lines = valid_lines(self, self.upper_lines),
        !.created_line_pairs =
            self.created_line_pairs \ rejected_ids(self, self.upper_lines)]

\* ChannelDetector._update_valid_lines
update_valid_lines(self) ==
    [self EXCEPT
        !.upper_lines = valid_lines(self, self.upper_lines),
        !.lower_lines = valid_lines(self, self.lower_lines),
        !.created_line_pairs =
            (self.created_line_pairs \ rejected_ids(self, self.upper_lines))
                \ rejected_ids(self, self.lower_lines)]

-----------------------------------------------------------------------------
(* PHAN 1: the sliding window *)

\* mutant of count_rule: the window is trimmed one element too late
count_rule_off_by_one(list, max_pivots) ==
    IF Len(list) > max_pivots + 1
    THEN Tail(list)
    ELSE list

\* mutant of count_rule: the pivot just before the newest one is popped
RECURSIVE count_rule_pops_inner(_, _)
count_rule_pops_inner(list, max_pivots) ==
    IF Len(list) > max_pivots /\ Len(list) >= 2
    THEN count_rule_pops_inner(SubSeq(list, 1, Len(list) - 2)
                                   \o <<list[Len(list)]>>, max_pivots)
    ELSE list

\* while len(list) > max_pivots: list.pop(0)
RECURSIVE count_rule(_, _)
count_rule(list, max_pivots) ==
    IF Len(list) > max_pivots
    THEN count_rule(Tail(list), max_pivots)
    ELSE list

\* mutant of age_rule: a pivot exactly at the cutoff is dropped too
age_rule_inclusive(list, max_age_ms) ==
    IF max_age_ms = None
    THEN list
    ELSE LET latest_timestamp == list[Len(list)].timestamp
             cutoff_timestamp == latest_timestamp - Val(max_age_ms)
             Kept(p) == p.timestamp > cutoff_timestamp
         IN  SelectSeq(list, Kept)

\* the age rule: drop every pivot older than (newest timestamp - max_age_ms)
age_rule(list, max_age_ms) ==
    IF max_age_ms = None
    THEN list
    ELSE LET latest_timestamp == list[Len(list)].timestamp
             cutoff_timestamp == latest_timestamp - Val(max_age_ms)
             Kept(p) == ~(p.timestamp < cutoff_timestamp)
         IN  SelectSeq(list, Kept)

\* one list after both rules (nothing runs on an empty list)
evict_list(list, max_pivots, max_age_ms) ==
    IF Len(list) > 0
    THEN age_rule(count_rule(list, max_pivots), max_age_ms)
    ELSE list

ids_of(list) == { list[i].id : i \in 1..Len(list) }

\* the pivots the count rule pops off the front of a list
popped(list, max_pivots) ==
    SubSeq(list, 1, Len(list) - Len(count_rule(list, max_pivots)))

\* the pivots the age rule removes from a list (old_peaks, old_troughs)
aged(list, max_age_ms) ==
    IF max_age_ms = None
    THEN <<>>
    ELSE LET latest_timestamp == list[Len(list)].timestamp
             cutoff_timestamp == latest_timestamp - Val(max_age_ms)
             Old(p) == p.timestamp < cutoff_timestamp
         IN  SelectSeq(list, Old)

\* the ids one list contributes to removed_ids
removed_from(list, max_pivots, max_age_ms) ==
    IF Len(list) > 0
    THEN ids_of(popped(list, max_pivots))
             \cup ids_of(aged(count_rule(list, max_pivots), max_age_ms))
    ELSE {}

\* removed_ids of _cleanup_old_pivots, as a set
removed_ids(self) ==
    removed_from(self.peaks_list, self.max_pivots, self.max_age_ms)
        \cup removed_from(self.troughs_list, self.max_pivots, self.max_age_ms)

\* mutant of cleanup_old_lines: only the second endpoint is looked up
cleanup_old_lines_point2_only(self, removed_pivot_ids) ==
    LET Hit(line) == line.point2.id \in removed_pivot_ids
        Keep(line) == ~Hit(line)
        gone(lines) == { lines[i].point_ids :
                           i \in { j \in 1..Len(lines) : Hit(lines[j]) } }
    IN  [self EXCEPT
            !.upper_lines = SelectSeq(self.upper_lines, Keep),
            !.lower_lines = SelectSeq(self.lower_lines, Keep),
            !.created_line_pairs =
                (self.created_line_pairs \ gone(self.upper_lines))
                    \ gone(self.lower_lines)]

\* ChannelDetector._cleanup_old_lines
cleanup_old_lines(self, removed_pivot_ids) ==
    LET Hit(line) == line.point1.id \in removed_pivot_ids
                     \/ line.point2.id \in removed_pivot_ids
        Keep(line) == ~Hit(line)
        gone(lines) == { lines[i].point_ids :
                           i \in { j \in 1..Len(lines) : Hit(lines[j]) } }
    IN  [self EXCEPT
            !.upper_lines = SelectSeq(self.upper_lines, Keep),
            !.lower_lines = SelectSeq(self.lower_lines, Keep),
            !.created_line_pairs =
                (self.created_line_pairs \ gone(self.upper_lines))
                    \ gone(self.lower_lines)]

\* oldest_pivot_ts of _cleanup_old_candles (None when no pivot is resident)
oldest_pivot_ts(self) ==
    IF Len(self.peaks_list) > 0 /\ Len(self.troughs_list) > 0
    THEN Some(IF self.peaks_list[1].timestamp <= self.troughs_list[1].timestamp
              THEN self.peaks_list[1].timestamp
              ELSE self.troughs_list[1].timestamp)
    ELSE IF Len(self.peaks_list) > 0
    THEN Some(self.peaks_list[1].timestamp)
    ELSE IF Len(self.troughs_list) > 0
    THEN Some(self.troughs_list[1].timestamp)
    ELSE None

\* mutant of cleanup_old_candles: a candle at the oldest pivot's timestamp is
\* removed too
cleanup_old_candles_strict(self) ==
    IF Len(self.candles_list) = 0
    THEN self
    ELSE IF oldest_pivot_ts(self) = None
    THEN self
    ELSE LET oldest_pivot_ms == to_ms(Val(oldest_pivot_ts(self)))
             Kept(c) == to_ms(c.timestamp) > oldest_pivot_ms
         IN  [self EXCEPT !.candles_list = SelectSeq(self.candles_list, Kept)]

\* mutant of cleanup_old_candles: candles up to one candle interval older
\* than the oldest pivot are kept
cleanup_old_candles_one_interval_late(self) ==
    IF Len(self.candles_list) = 0
    THEN self
    ELSE IF oldest_pivot_ts(self) = None
    THEN self
    ELSE LET oldest_pivot_ms == to_ms(Val(oldest_pivot_ts(self)))
             Kept(c) == to_ms(c.timestamp) >= oldest_pivot_ms - self.candle_interval_ms
         IN  [self EXCEPT !.candles_list = SelectSeq(self.candles_list, Kept)]

\* ChannelDetector._cleanup_old_candles
cleanup_old_candles(self) ==
    IF Len(self.candles_list) = 0
    THEN self
    ELSE IF oldest_pivot_ts(self) = None
    THEN self
    ELSE LET oldest_pivot_ms == to_ms(Val(oldest_pivot_ts(self)))
             Kept(c) == to_ms(c.timestamp) >= oldest_pivot_ms
         IN  [self EXCEPT !.candles_list = SelectSeq(self.candles_list, Kept)]

\* mutant of cleanup_old_pivots: one age cutoff for both lists, taken from
\* the newest pivot of either type
cleanup_old_pivots_shared_cutoff(self) ==
    LET removed == removed_ids(self)
        lasts == { self.peaks_list[i].timestamp : i \in {Len(self.peaks_list)} \ {0} }
                 \cup { self.troughs_list[i].timestamp :
                            i \in {Len(self.troughs_list)} \ {0} }
        Shared(list) ==
            IF self.max_age_ms = None \/ lasts = {}
            THEN list
            ELSE LET latest_timestamp == CHOOSE t \in lasts : \A u \in lasts : u <= t
                     Kept(p) == ~(p.timestamp < latest_timestamp - Val(self.max_age_ms))
                 IN  SelectSeq(list, Kept)
        s1 == [self EXCEPT
                 !.peaks_list = Shared(count_rule(self.peaks_list, self.max_pivots)),
                 !.troughs_list = Shared(count_rule(self.troughs_list, self.max_pivots))]
    IN  IF Cardinality(removed) > 0
        THEN cleanup_old_candles(cleanup_old_lines(s1, removed))
        ELSE s1

\* mutant of cleanup_old_pivots: the candles are not synchronised
cleanup_old_pivots_keeps_candles(self) ==
    LET removed == removed_ids(self)
        s1 == [self EXCEPT
                 !.peaks_list = evict_list(self.peaks_list, self.max_pivots,
                                           self.max_age_ms),
                 !.troughs_list = evict_list(self.troughs_list, self.max_pivots,
                                             self.max_age_ms)]
    IN  IF Cardinality(removed) > 0
        THEN cleanup_old_lines(s1, removed)
        ELSE s1

\* ChannelDetector._cleanup_old_pivots
cleanup_old_pivots(self) ==
    LET removed == removed_ids(self)
        s1 == [self EXCEPT
                 !.peaks_list = evict_list(self.peaks_list, self.max_pivots,
                                           self.max_age_ms),
                 !.troughs_list = evict_list(self.troughs_list, self.max_pivots,
                                             self.max_age_ms)]
    IN  IF Cardinality(removed) > 0
        THEN cleanup_old_candles(cleanup_old_lines(s1, removed))
        ELSE s1

-----------------------------------------------------------------------------
(* PHAN 2: incremental line generation *)

\* first element of a list with the given id, None when there is none
find_pivot(list, pivot_id) ==
    LET hits == { i \in 1..Len(list) : list[i].id = pivot_id }
    IN  IF hits = {}
        THEN None
        ELSE Some(list[CHOOSE i \in hits : \A j \in hits : i <= j])

\* mutant of pivot_list_of: the new pivot is paired with the pivots of both lists
pivot_list_of_both(self, new_pivot_id) ==
    self.peaks_list \o self.troughs_list

\* the list _generate_new_lines pairs the new pivot in: peaks first, then troughs
pivot_list_of(self, new_pivot_id) ==
    IF find_pivot(self.peaks_list, new_pivot_id) # None
    THEN self.peaks_list
    ELSE self.troughs_list

\* mutant of gen_loop: the pair is marked as created before create_line is
\* called, so a pair that yields no line is marked too
RECURSIVE gen_loop_marks_first(_, _, _, _)
gen_loop_marks_first(pivot_list, new_pivot, i, acc) ==
    IF i > Len(pivot_list)
    THEN acc
    ELSE LET old_pivot == pivot_list[i]
             pair == sorted_pair(old_pivot.id, new_pivot.id)
             line == create_line(old_pivot, new_pivot)
             marked == acc.created_line_pairs \cup {pair}
         IN  IF old_pivot.id = new_pivot.id
             THEN gen_loop_marks_first(pivot_list, new_pivot, i + 1, acc)
             ELSE IF pair \in acc.created_line_pairs
             THEN gen_loop_marks_first(pivot_list, new_pivot, i + 1, acc)
             ELSE IF line = None
             THEN gen_loop_marks_first(pivot_list, new_pivot, i + 1,
                           [created_line_pairs |-> marked,
                            new_lines |-> acc.new_lines])
             ELSE gen_loop_marks_first(pivot_list, new_pivot, i + 1,
                           [created_line_pairs |-> marked,
                            new_lines |-> Append(acc.new_lines, Val(line))])

\* mutant of gen_loop: the line is built from the new pivot to the old one
RECURSIVE gen_loop_new_first(_, _, _, _)
gen_loop_new_first(pivot_list, new_pivot, i, acc) ==
    IF i > Len(pivot_list)
    THEN acc
    ELSE LET old_pivot == pivot_list[i]
             pair == sorted_pair(old_pivot.id, new_pivot.id)
             line == create_line(new_pivot, old_pivot)
         IN  IF old_pivot.id = new_pivot.id
             THEN gen_loop_new_first(pivot_list, new_pivot, i + 1, acc)
             ELSE IF pair \in acc.created_line_pairs
             THEN gen_loop_new_first(pivot_list, new_pivot, i + 1, acc)
             ELSE IF line = None
             THEN gen_loop_new_first(pivot_list, new_pivot, i + 1, acc)
             ELSE gen_loop_new_first(pivot_list, new_pivot, i + 1,
                           [created_line_pairs |-> acc.created_line_pairs \cup {pair},
                            new_lines |-> Append(acc.new_lines, Val(line))])

\* the loop of _generate_new_lines over pivot_list, from index i on;
\* acc holds created_line_pairs and new_lines as the loop has them
RECURSIVE gen_loop(_, _, _, _)
gen_loop(pivot_list, new_pivot, i, acc) ==
    IF i > Len(pivot_list)
    THEN acc
    ELSE LET old_pivot == pivot_list[i]
             pair == sorted_pair(old_pivot.id, new_pivot.id)
             line == create_line(old_pivot, new_pivot)
         IN  IF old_pivot.id = new_pivot.id
             THEN gen_loop(pivot_list, new_pivot, i + 1, acc)
             ELSE IF pair \in acc.created_line_pairs
             THEN gen_loop(pivot_list, new_pivot, i + 1, acc)
             ELSE IF line = None
             THEN gen_loop(pivot_list, new_pivot, i + 1, acc)
             ELSE gen_loop(pivot_list, new_pivot, i + 1,
                           [created_line_pairs |-> acc.created_line_pairs \cup {pair},
                            new_lines |-> Append(acc.new_lines, Val(line))])

\* mutant of generated: every pair of the window is built again on each
\* call, without consulting created_line_pairs
generated_all_pairs(self, new_pivot_id) ==
    LET list == pivot_list_of(self, new_pivot_id)
        n == Len(list)
        all == [k \in 1..(n * n) |-> <<((k - 1) \div n) + 1, ((k - 1) % n) + 1>>]
        Usable(ij) == ij[1] < ij[2] /\ create_line(list[ij[1]], list[ij[2]]) # None
        pairs == SelectSeq(all, Usable)
    IN  [created_line_pairs |->
             self.created_line_pairs
                 \cup { sorted_pair(list[pairs[k][1]].id, list[pairs[k][2]].id) :
                          k \in 1..Len(pairs) },
         new_lines |->
             [k \in 1..Len(pairs) |-> Val(create_line(list[pairs[k][1]], list[pairs[k][2]]))]]

\* new_lines of _generate_new_lines, with the pairs it marked as created
generated(self, new_pivot_id) ==
    LET list == pivot_list_of(self, new_pivot_id)
        found == find_pivot(list, new_pivot_id)
        start == [created_line_pairs |-> self.created_line_pairs,
                  new_lines |-> <<>>]
    IN  IF found = None
        THEN start
        ELSE gen_loop(list, Val(found), 1, start)

\* ChannelDetector._generate_new_lines
generate_new_lines(self, new_pivot_id) ==
    LET g == generated(self, new_pivot_id)
        IsUpper(line) == line.type = "upper"
        IsLower(line) == line.type # "upper"
        s1 == [self EXCEPT
                 !.created_line_pairs = g.created_line_pairs,
                 !.upper_lines = self.upper_lines \o SelectSeq(g.new_lines, IsUpper),
                 !.lower_lines = self.lower_lines \o SelectSeq(g.new_lines, IsLower)]
    IN  IF Len(g.new_lines) > 0
        THEN update_valid_lines(s1)
        ELSE s1

-----------------------------------------------------------------------------
(* The public calls *)

\* the detector after the candle of the record is stored
with_candle(self, zigzag_output) ==
    IF zigzag_output.candle # None
    THEN [self EXCEPT !.candles_list = Append(self.candles_list,
                                              Val(zigzag_output.candle))]
    ELSE self

\* mutant of with_pivot: the id counter is not advanced
with_pivot_no_increment(self, pivot) ==
    LET pivot_full == [ id        |-> self.next_pivot_id,
                        timestamp |-> pivot.timestamp,
                        price     |-> pivot.price,
                        type      |-> pivot.type ]
    IN  IF pivot.type = "peak"
        THEN [self EXCEPT !.peaks_list = Append(self.peaks_list, pivot_full)]
        ELSE [self EXCEPT !.troughs_list = Append(self.troughs_list, pivot_full)]

\* mutant of with_pivot: the id counter wraps around, so the id of an
\* evicted pivot is given out again
with_pivot_wrapping_id(self, pivot) ==
    LET pivot_full == [ id        |-> self.next_pivot_id,
                        timestamp |-> pivot.timestamp,
                        price     |-> pivot.price,
                        type      |-> pivot.type ]
        s1 == [self EXCEPT !.next_pivot_id = (self.next_pivot_id + 1) % 2]
    IN  IF pivot.type = "peak"
        THEN [s1 EXCEPT !.peaks_list = Append(self.peaks_list, pivot_full)]
        ELSE [s1 EXCEPT !.troughs_list = Append(self.troughs_list, pivot_full)]

\* mutant of with_pivot: the pivot is inserted at the front of its list
with_pivot_prepends(self, pivot) ==
    LET pivot_full == [ id        |-> self.next_pivot_id,
                        timestamp |-> pivot.timestamp,
                        price     |-> pivot.price,
                        type      |-> pivot.type ]
        s1 == [self EXCEPT !.next_pivot_id = self.next_pivot_id + 1]
    IN  IF pivot.type = "peak"
        THEN [s1 EXCEPT !.peaks_list = <<pivot_full>> \o self.peaks_list]
        ELSE [s1 EXCEPT !.troughs_list = <<pivot_full>> \o self.troughs_list]

\* the detector after the pivot of the record got its id and was appended
with_pivot(self, pivot) ==
    LET pivot_full == [ id        |-> self.next_pivot_id,
                        timestamp |-> pivot.timestamp,
                        price     |-> pivot.price,
                        type      |-> pivot.type ]
        s1 == [self EXCEPT !.next_pivot_id = self.next_pivot_id + 1]
    IN  IF pivot.type = "peak"
        THEN [s1 EXCEPT !.peaks_list = Append(self.peaks_list, pivot_full)]
        ELSE [s1 EXCEPT !.troughs_list = Append(self.troughs_list, pivot_full)]

\* mutant of add_pivot: a candle-only call re-validates the resident lines
add_pivot_revalidates(self, zigzag_output) ==
    LET s1 == with_candle(self, zigzag_output)
        pivot_id == s1.next_pivot_id
        s2 == with_pivot(s1, Val(zigzag_output.pivot))
        s3 == cleanup_old_pivots(s2)
        s4 == generate_new_lines(s3, pivot_id)
    IN  IF zigzag_output.pivot = None
        THEN [self |-> update_valid_lines(s1), ret |-> None, removed_ids |-> {},
              removed_lines |-> <<>>, removed_candles |-> 0, new_lines |-> <<>>]
        ELSE [self |-> s4, ret |-> Some(pivot_id),
              removed_ids |-> removed_ids(s2),
              removed_lines |->
                  LET Gone(line) == line.point1.id \in removed_ids(s2)
                                    \/ line.point2.id \in removed_ids(s2)
                  IN  SelectSeq(s2.upper_lines, Gone) \o SelectSeq(s2.lower_lines, Gone),
              removed_candles |-> Len(s2.candles_list) - Len(s3.candles_list),
              new_lines |-> generated(s3, pivot_id).new_lines]

\* mutant of add_pivot: the new pivot is paired before the window is trimmed
add_pivot_pairs_before_evict(self, zigzag_output) ==
    LET s1 == with_candle(self, zigzag_output)
        pivot_id == s1.next_pivot_id
        s2 == with_pivot(s1, Val(zigzag_output.pivot))
        s3 == generate_new_lines(s2, pivot_id)
        s4 == cleanup_old_pivots(s3)
    IN  IF zigzag_output.pivot = None
        THEN [self |-> s1, ret |-> None, removed_ids |-> {},
              removed_lines |-> <<>>, removed_candles |-> 0, new_lines |-> <<>>]
        ELSE [self |-> s4, ret |-> Some(pivot_id),
              removed_ids |-> removed_ids(s3),
              removed_lines |->
                  LET Gone(line) == line.point1.id \in removed_ids(s3)
                                    \/ line.point2.id \in removed_ids(s3)
                  IN  SelectSeq(s3.upper_lines, Gone) \o SelectSeq(s3.lower_lines, Gone),
              removed_candles |-> Len(s3.candles_list) - Len(s4.candles_list),
              new_lines |-> generated(s2, pivot_id).new_lines]

\* ChannelDetector.add_pivot: the detector after the call, the value returned,
\* and what the call reports on the way (the pivots and candles it removed,
\* the lines it dropped with the pivots, the lines it built)
add_pivot(self, zigzag_output) ==
    LET s1 == with_candle(self, zigzag_output)
        pivot_id == s1.next_pivot_id
        s2 == with_pivot(s1, Val(zigzag_output.pivot))
        s3 == cleanup_old_pivots(s2)
        s4 == generate_new_lines(s3, pivot_id)
    IN  IF zigzag_output.pivot = None
        THEN [self |-> s1, ret |-> None, removed_ids |-> {},
              removed_lines |-> <<>>, removed_candles |-> 0, new_lines |-> <<>>]
        ELSE [self |-> s4, ret |-> Some(pivot_id),
              removed_ids |-> removed_ids(s2),
              removed_lines |->
                  LET Gone(line) == line.point1.id \in removed_ids(s2)
                                    \/ line.point2.id \in removed_ids(s2)
                  IN  SelectSeq(s2.upper_lines, Gone) \o SelectSeq(s2.lower_lines, Gone),
              removed_candles |-> Len(s2.candles_list) - Len(s3.candles_list),
              new_lines |-> generated(s3, pivot_id).new_lines]

\* mutant of reset: the id counter survives the reset
reset_keeps_counter(self) ==
    [self EXCEPT
        !.peaks_list = <<>>,
        !.troughs_list = <<>>,
        !.candles_list = <<>>,
        !.upper_lines = <<>>,
        !.lower_lines = <<>>,
        !.created_line_pairs = {}]

\* mutant of reset: only the pivots, the candles and the id counter are
\* cleared; the lines and their pairs are kept
reset_clears_pivots_only(self) ==
    [self EXCEPT
        !.peaks_list = <<>>,
        !.troughs_list = <<>>,
        !.candles_list = <<>>,
        !.next_pivot_id = 0]

\* mutant of reset: created_line_pairs survives the reset
reset_keeps_pairs(self) ==
    [self EXCEPT
        !.peaks_list = <<>>,
        !.troughs_list = <<>>,
        !.candles_list = <<>>,
        !.upper_lines = <<>>,
        !.lower_lines = <<>>,
        !.next_pivot_id = 0]

\* ChannelDetector.reset
reset(self) ==
    [self EXCEPT
        !.peaks_list = <<>>,
        !.troughs_list = <<>>,
        !.candles_list = <<>>,
        !.upper_lines = <<>>,
        !.lower_lines = <<>>,
        !.created_line_pairs = {},
        !.next_pivot_id = 0]

-----------------------------------------------------------------------------
(* Inputs *)

\* timestamp of the k-th candle interval
Ts(k) == k * candle_interval_ms

Timestamps == { Ts(k) : k \in 0..MaxTick }

\* constructor arguments the model runs the detector under
Configs ==
    [ max_pivots              : 1..MaxPivotsBound,
      max_age_ms              : {None, Some(candle_interval_ms)},
      max_slope               : {Some(<<3, 2 * candle_interval_ms>>)},
      min_distance_candles    : {1},
      max_penetration_pct     : {<<3, 10>>},
      max_penetrating_candles : {1} ]

PeakPrices == {1000, 1003}
TroughPrices == {997}

\* high and low of a candle: inside the price band, and 0.6% beyond the
\* 1000 level on both sides
CandleShapes == { [high |-> 1000, low |-> 1000],
                  [high |-> 1006, low |-> 994] }

Candles == { [timestamp |-> t, high |-> sh.high, low |-> sh.low] :
               t \in Timestamps, sh \in CandleShapes }

Pivots == [ timestamp : Timestamps, price : PeakPrices, type : {"peak"} ]
          \cup [ timestamp : Timestamps, price : TroughPrices, type : {"trough"} ]

Records == [ candle : {None} \cup { Some(c) : c \in Candles },
             pivot  : {None} \cup { Some(p) : p \in Pivots } ]

last_ts(list) == list[Len(list)].timestamp

\* candles arrive in non-decreasing time order, and so do the pivots of a type
InOrder(zz) ==
    /\ zz.candle # None => Val(zz.candle).timestamp >= clock
    /\ zz.pivot # None =>
         LET p == Val(zz.pivot)
             list == IF p.type = "peak" THEN peaks_list ELSE troughs_list
         IN  Len(list) > 0 => p.timestamp >= last_ts(list)

line_pairs(lines) ==
    { sorted_pair(lines[i].point_ids[1], lines[i].point_ids[2]) : i \in 1..Len(lines) }

resident_pairs == line_pairs(upper_lines) \cup line_pairs(lower_lines)

-----------------------------------------------------------------------------
(* State machine *)

\* the callers of a host, none of them inside add_pivot
Callers == {1, 2}

NoCallers(locked) ==
    [ locked   |-> locked,
      holder   |-> 0,
      calls    |-> 0,
      pc       |-> [t \in Callers |-> "idle"],
      pivot    |-> [t \in Callers |-> None],
      pivot_id |-> [t \in Callers |-> 0] ]

\* the detector after construction, and the empty history
InitDetector(cfgs) ==
    /\ config \in cfgs
    /\ peaks_list = Construct(config).peaks_list
    /\ troughs_list = Construct(config).troughs_list
    /\ candles_list = Construct(config).candles_list
    /\ next_pivot_id = Construct(config).next_pivot_id
    /\ upper_lines = Construct(config).upper_lines
    /\ lower_lines = Construct(config).lower_lines
    /\ created_line_pairs = Construct(config).created_line_pairs
    /\ op = "init"
    /\ ret = None
    /\ evicted = {}
    /\ cascaded = {}
    /\ dropped = 0
    /\ built = 0
    /\ epoch = 0
    /\ issued = <<>>
    /\ dead_pairs = {}
    /\ clock = 0
    /\ fresh = Construct(config)
    /\ fresh_ret = None
    /\ probe = None
    /\ synced = 0

InitWith(cfgs) ==
    /\ InitDetector(cfgs)
    /\ threads = NoCallers(TRUE)

Init == InitWith(Configs)

\* what detector.add_pivot(zz) does to the detector and to the history
AddPivotEffect(zz) ==
    /\ \E r \in {add_pivot(Self, zz)} :
         /\ peaks_list' = r.self.peaks_list
         /\ troughs_list' = r.self.troughs_list
         /\ candles_list' = r.self.candles_list
         /\ next_pivot_id' = r.self.next_pivot_id
         /\ upper_lines' = r.self.upper_lines
         /\ lower_lines' = r.self.lower_lines
         /\ created_line_pairs' = r.self.created_line_pairs
         /\ ret' = r.ret
         /\ evicted' = r.removed_ids
         /\ cascaded' = line_pairs(r.removed_lines)
         /\ dropped' = r.removed_candles
         /\ built' = Len(r.new_lines)
         /\ synced' = IF r.removed_ids # {} THEN Len(r.self.candles_list) ELSE synced
         /\ issued' = IF r.ret = None THEN issued ELSE Append(issued, Val(r.ret))
         /\ dead_pairs' = dead_pairs \cup
                ((resident_pairs \cup line_pairs(r.new_lines))
                    \ (line_pairs(r.self.upper_lines) \cup line_pairs(r.self.lower_lines)))
         /\ \E f \in {IF fresh = Self THEN r ELSE add_pivot(fresh, zz)} :
                /\ fresh' = f.self
                /\ fresh_ret' = f.ret
    /\ op' = "add_pivot"
    /\ clock' = IF zz.candle = None THEN clock ELSE Val(zz.candle).timestamp
    /\ probe' = None
    /\ UNCHANGED <<config, epoch, threads>>

\* detector.add_pivot(zz)
AddPivotCall(zz) ==
    /\ InOrder(zz)
    /\ zz.candle # None => Len(candles_list) < MaxCandles
    /\ zz.pivot # None => next_pivot_id < MaxIds
    /\ AddPivotEffect(zz)

\* detector.reset(): what the call does to the detector and to the history
ResetEffect ==
    /\ op # "init"
    /\ \E r \in {reset(Self)} :
         /\ peaks_list' = r.peaks_list
         /\ troughs_list' = r.troughs_list
         /\ candles_list' = r.candles_list
         /\ next_pivot_id' = r.next_pivot_id
         /\ upper_lines' = r.upper_lines
         /\ lower_lines' = r.lower_lines
         /\ created_line_pairs' = r.created_line_pairs
    /\ op' = "reset"
    /\ ret' = None
    /\ evicted' = {}
    /\ cascaded' = {}
    /\ dropped' = 0
    /\ built' = 0
    /\ issued' = <<>>
    /\ dead_pairs' = {}
    /\ clock' = 0
    /\ fresh' = Construct(config)
    /\ fresh_ret' = None
    /\ probe' = None
    /\ synced' = 0
    /\ UNCHANGED <<config, threads>>

\* detector.reset()
ResetCall ==
    /\ ResetEffect
    /\ UNCHANGED epoch

Next ==
    \/ \E zz \in Records : AddPivotCall(zz)
    \/ ResetCall

Spec == Init /\ [][Next]_vars

\* detector.reset(), counted: the history before it stays visible in epoch
ResetCounted ==
    /\ epoch = 0
    /\ ResetEffect
    /\ epoch' = epoch + 1

NextReset ==
    \/ \E zz \in Records : AddPivotCall(zz)
    \/ ResetCounted

\* the behaviours history; reset(); calls, with the reset marked in epoch
SpecReset == Init /\ [][NextReset]_vars

-----------------------------------------------------------------------------
(* Properties *)

elements(list) == { list[i] : i \in 1..Len(list) }

resident_pivots == elements(peaks_list) \cup elements(troughs_list)

\* C1: bounded window -- after every call neither peaks_list nor
\* troughs_list holds more than max_pivots pivots.
C1_BoundedWindow ==
    /\ Len(peaks_list) <= config.max_pivots
    /\ Len(troughs_list) <= config.max_pivots

\* a call in which the count rule alone removed a pivot from a full list
C1_Witness ==
    /\ op = "add_pivot"
    /\ config.max_age_ms = None
    /\ evicted # {}
    /\ Len(peaks_list) = config.max_pivots
    /\ config.max_pivots >= 2

\* C2: eviction cascade -- both endpoint ids of every line of upper_lines
\* are ids of pivots resident in peaks_list, and both endpoint ids of every
\* line of lower_lines are ids of pivots resident in troughs_list.
C2_EvictionCascade ==
    /\ \A line \in elements(upper_lines) :
         /\ line.point1.id \in ids_of(peaks_list)
         /\ line.point2.id \in ids_of(peaks_list)
    /\ \A line \in elements(lower_lines) :
         /\ line.point1.id \in ids_of(troughs_list)
         /\ line.point2.id \in ids_of(troughs_list)

\* a call that evicted a pivot, dropped a resident line with it and left
\* another line resident
C2_Witness ==
    /\ op = "add_pivot"
    /\ evicted # {}
    /\ cascaded # {}
    /\ upper_lines # <<>>

\* C3: no duplicate lines -- no two lines of upper_lines, and no two lines
\* of lower_lines, have the same unordered endpoint-id pair.
C3_NoDuplicateLines ==
    /\ \A i, j \in 1..Len(upper_lines) :
         i # j => sorted_pair(upper_lines[i].point_ids[1], upper_lines[i].point_ids[2])
                  # sorted_pair(upper_lines[j].point_ids[1], upper_lines[j].point_ids[2])
    /\ \A i, j \in 1..Len(lower_lines) :
         i # j => sorted_pair(lower_lines[i].point_ids[1], lower_lines[i].point_ids[2])
                  # sorted_pair(lower_lines[j].point_ids[1], lower_lines[j].point_ids[2])

\* three resident lines over three resident peaks, the newest pivot paired twice
C3_Witness ==
    /\ Len(upper_lines) = 3
    /\ Len(peaks_list) = 3

C5_CandleSync ==
    (op = "add_pivot" /\ evicted # {}) =>
        \A c \in elements(candles_list) :
            \E q \in resident_pivots : q.timestamp <= c.timestamp

\* a call that evicted a pivot, removed a candle and kept another one
C5_Witness ==
    /\ op = "add_pivot"
    /\ evicted # {}
    /\ dropped > 0
    /\ candles_list # <<>>

\* C6 as stated: after every add_pivot call, every resident line is accepted
\* by validate_single_line against the current candles_list.
C6_AcceptedAfterEveryCall ==
    op = "add_pivot" =>
        \A line \in elements(upper_lines) \cup elements(lower_lines) :
            validate_single_line(Self, line).valid

\* C6, amended: after every add_pivot call that built at least one candidate
\* line, every resident line is accepted by validate_single_line against the
\* current candles_list.
C6_AcceptedAfterGeneration ==
    (op = "add_pivot" /\ built > 0) =>
        \A line \in elements(upper_lines) \cup elements(lower_lines) :
            validate_single_line(Self, line).valid

\* a call that built a line and left resident a line with a candle strictly
\* between its endpoints
C6_Witness ==
    /\ op = "add_pivot"
    /\ built > 0
    /\ \E line \in elements(upper_lines) \cup elements(lower_lines) :
         Len(candles_between(Self, line)) > 0

\* C7: no resurrection -- no resident line has the endpoint-id pair of a
\* line removed (rejected or dropped with an evicted endpoint) since the
\* last reset.
C7_NoResurrection == resident_pairs \cap dead_pairs = {}

\* a rejected pair whose two peaks are still resident and whose key is gone
\* from created_line_pairs, right after a later peak was paired with them
C7_Witness ==
    /\ op = "add_pivot"
    /\ ret # None
    /\ \E pr \in dead_pairs :
         /\ pr[1] \in ids_of(peaks_list)
         /\ pr[2] \in ids_of(peaks_list)
         /\ pr \notin created_line_pairs
         /\ Val(ret) > pr[2]
         /\ Val(ret) \in ids_of(peaks_list)
         /\ built > 0

CandleOnlyRecords == { zz \in Records : zz.pivot = None }

\* C9: candle-only update -- a call whose record has no pivot returns None,
\* appends the candle of the record (if any) at the end of candles_list and
\* changes nothing else of the detector.
C9_CandleOnlyFrame ==
    [][ \A zz \in CandleOnlyRecords :
          AddPivotCall(zz) =>
            /\ ret' = None
            /\ candles_list' = IF zz.candle = None
                               THEN candles_list
                               ELSE Append(candles_list, Val(zz.candle))
            /\ UNCHANGED <<peaks_list, troughs_list, upper_lines, lower_lines,
                           created_line_pairs, next_pivot_id>> ]_vars

\* a candle-only call that stored a candle strictly between the endpoints
\* of a resident line
C9_Witness ==
    /\ op = "add_pivot"
    /\ ret = None
    /\ candles_list # <<>>
    /\ \E line \in elements(upper_lines) :
         /\ line.point1.timestamp < candles_list[Len(candles_list)].timestamp
         /\ candles_list[Len(candles_list)].timestamp < line.point2.timestamp

-----------------------------------------------------------------------------
(* Direct calls of the line factory and the validator *)

ValidateConfigs ==
    [ max_pivots              : {1},
      max_age_ms              : {None},
      max_slope               : {None, Some(<<3, 2 * candle_interval_ms>>)},
      min_distance_candles    : {1, 2},
      max_penetration_pct     : {<<3, 10>>},
      max_penetrating_candles : {1} ]

\* candles of the validator's windows: the shapes above and one exactly
\* 0.3% beyond the 1000 level
ValidateCandles ==
    Candles \cup { [timestamp |-> t, high |-> 1003, low |-> 997] : t \in Timestamps }

ValidateRecords == [ candle : { Some(c) : c \in ValidateCandles }, pivot : {None} ]

ProbePrices == {1000, 1003}

ProbePoints(id) ==
    [ id : {id}, timestamp : Timestamps, price : ProbePrices, type : {"peak", "trough"} ]

\* mutant of ValidateCall: the validator files an accepted line and its
\* pair in the detector
ValidateCall_files_line(point1, point2) ==
    /\ point1.type = point2.type
    /\ create_line(point1, point2) # None
    /\ probe' = Some([ line   |-> Val(create_line(point1, point2)),
                       raised |-> validate_single_line_raises(Self, Val(create_line(point1, point2))),
                       result |-> validate_single_line(Self, Val(create_line(point1, point2))) ])
    /\ upper_lines' = IF validate_single_line(Self, Val(create_line(point1, point2))).valid
                      THEN Append(upper_lines, Val(create_line(point1, point2)))
                      ELSE upper_lines
    /\ created_line_pairs' = created_line_pairs \cup {sorted_pair(point1.id, point2.id)}
    /\ UNCHANGED <<config, peaks_list, troughs_list, candles_list, next_pivot_id,
                   lower_lines, op, ret, evicted,
                   cascaded, dropped, built, issued, dead_pairs, clock, fresh,
                   fresh_ret, epoch, synced, threads>>

\* line = detector.create_line(point1, point2); detector.validate_single_line(line);
\* result is what the call returns when it does not raise
ValidateCall(point1, point2) ==
    /\ point1.type = point2.type
    /\ create_line(point1, point2) # None
    /\ probe' = Some([ line   |-> Val(create_line(point1, point2)),
                       raised |-> validate_single_line_raises(Self, Val(create_line(point1, point2))),
                       result |-> validate_single_line(Self, Val(create_line(point1, point2))) ])
    /\ UNCHANGED <<config, peaks_list, troughs_list, candles_list, next_pivot_id,
                   upper_lines, lower_lines, created_line_pairs, op, ret, evicted,
                   cascaded, dropped, built, issued, dead_pairs, clock, fresh,
                   fresh_ret, epoch, synced, threads>>

InitValidate == InitWith(ValidateConfigs)

NextValidate ==
    \/ \E zz \in ValidateRecords : AddPivotCall(zz)
    \/ \E point1 \in ProbePoints(0), point2 \in ProbePoints(1) : ValidateCall(point1, point2)

\* candle windows built by candle-only calls, probed by direct validator calls
SpecValidate == InitValidate /\ [][NextValidate]_vars

\* abs(slope) > max_slope, from the endpoints of the probed line
Steep(line) ==
    /\ config.max_slope # None
    /\ Abs(line.point2.price - line.point1.price) * Val(config.max_slope)[2]
         > Val(config.max_slope)[1] * Abs(line.point2.timestamp - line.point1.timestamp)

\* C10: slope rejection -- with max_slope set, a line with abs(slope) >
\* max_slope is rejected with the slope reason whatever its spacing and the
\* candle window; the slope reason is given to no other line (not at
\* abs(slope) = max_slope, not when max_slope is None).
C10_SlopeRejection ==
    probe # None =>
        /\ Steep(Val(probe).line) =>
             /\ ~Val(probe).result.valid
             /\ Val(probe).result.reason = "slope too large"
        /\ Val(probe).result.reason = "slope too large" => Steep(Val(probe).line)

\* a falling line steeper than max_slope, with enough spacing and a
\* non-empty candle window, rejected for its slope
C10_Witness ==
    /\ probe # None
    /\ Steep(Val(probe).line)
    /\ Val(probe).line.point2.price < Val(probe).line.point1.price
    /\ ~too_close(Self, Val(probe).line)
    /\ candles_list # <<>>
    /\ Val(probe).result.reason = "slope too large"

\* abs(ts2 - ts1) / candle_interval_ms < min_distance_candles, from the
\* endpoints of the probed line
Close(line) ==
    Abs(line.point2.timestamp - line.point1.timestamp)
        < config.min_distance_candles * candle_interval_ms

\* C11 as stated: a line whose endpoints are closer than min_distance_candles
\* candle intervals is rejected with the "too close" reason, for every slope
\* and every max_slope setting.
C11_TooCloseWhateverSlope ==
    (probe # None /\ Close(Val(probe).line)) =>
        /\ ~Val(probe).result.valid
        /\ Val(probe).result.reason = "points too close"

\* C11, amended: a line whose endpoints are closer than min_distance_candles
\* candle intervals is rejected for every slope and every max_slope setting;
\* the reason is the "too close" reason unless max_slope is set and
\* abs(slope) > max_slope, in which case it is the slope reason; the "too
\* close" reason is given to no line with enough spacing.
C11_SpacingRejection ==
    probe # None =>
        /\ Close(Val(probe).line) =>
             /\ ~Val(probe).result.valid
             /\ Val(probe).result.reason =
                  IF Steep(Val(probe).line) THEN "slope too large"
                                            ELSE "points too close"
        /\ Val(probe).result.reason = "points too close" => Close(Val(probe).line)

\* a sloped line one candle interval long under min_distance_candles = 2 and
\* no slope bound, its second point the earlier one, rejected as too close
\* over a non-empty candle window
C11_Witness ==
    /\ probe # None
    /\ Close(Val(probe).line)
    /\ config.max_slope = None
    /\ Val(probe).line.point1.price # Val(probe).line.point2.price
    /\ Val(probe).line.point2.timestamp < Val(probe).line.point1.timestamp
    /\ candles_list # <<>>
    /\ Val(probe).result.reason = "points too close"

\* the earlier and the later endpoint of a line
Earlier(line) ==
    IF line.point1.timestamp <= line.point2.timestamp THEN line.point1 ELSE line.point2

Later(line) ==
    IF line.point1.timestamp <= line.point2.timestamp THEN line.point2 ELSE line.point1

\* a time span in candle intervals (every timestamp of the model is a
\* whole number of intervals)
Ticks(ms) == ms \div candle_interval_ms

\* length of the line in candle intervals
Span(line) == Ticks(Later(line).timestamp - Earlier(line).timestamp)

\* Span(line) times the price of the line at timestamp ts, by interpolation
\* between the endpoints
SpanLinePrice(line, ts) ==
    Earlier(line).price * Span(line)
        + (Later(line).price - Earlier(line).price) * Ticks(ts - Earlier(line).timestamp)

\* positions in candles_list of the candles strictly between the endpoint
\* timestamps that cross the line
Penetrating(line) ==
    { i \in 1..Len(candles_list) :
        /\ Earlier(line).timestamp < candles_list[i].timestamp
        /\ candles_list[i].timestamp < Later(line).timestamp
        /\ IF line.type = "upper"
           THEN candles_list[i].high * Span(line)
                    > SpanLinePrice(line, candles_list[i].timestamp)
           ELSE candles_list[i].low * Span(line)
                    < SpanLinePrice(line, candles_list[i].timestamp) }

\* Span(line) times the distance by which candle i is beyond the line
SpanExcess(line, i) ==
    IF line.type = "upper"
    THEN candles_list[i].high * Span(line) - SpanLinePrice(line, candles_list[i].timestamp)
    ELSE SpanLinePrice(line, candles_list[i].timestamp) - candles_list[i].low * Span(line)

\* some penetration, in percent of the line price, exceeds max_penetration_pct
TooDeep(line) ==
    \E i \in Penetrating(line) :
        SpanExcess(line, i) * 100 * config.max_penetration_pct[2]
            > config.max_penetration_pct[1]
                  * SpanLinePrice(line, candles_list[i].timestamp)

\* C12: penetration rejection -- a line that passes the slope and the
\* spacing check is rejected if and only if, among the candles strictly
\* between its endpoint timestamps, more than max_penetrating_candles cross
\* it or one crosses it by more than max_penetration_pct percent of the line
\* price; a count and a percentage equal to the limits are accepted.
C12_PenetrationRejection ==
    (probe # None /\ ~Steep(Val(probe).line) /\ ~Close(Val(probe).line)) =>
        (~Val(probe).result.valid
            <=> \/ Cardinality(Penetrating(Val(probe).line))
                     > config.max_penetrating_candles
                \/ TooDeep(Val(probe).line))

\* a line crossed by two candles, each by exactly max_penetration_pct, is
\* rejected for the number of crossing candles alone
C12_Witness ==
    /\ probe # None
    /\ ~Steep(Val(probe).line)
    /\ ~Close(Val(probe).line)
    /\ Cardinality(Penetrating(Val(probe).line)) = config.max_penetrating_candles + 1
    /\ ~TooDeep(Val(probe).line)
    /\ \A i \in Penetrating(Val(probe).line) :
         SpanExcess(Val(probe).line, i) * 100 * config.max_penetration_pct[2]
             = config.max_penetration_pct[1]
                   * SpanLinePrice(Val(probe).line, candles_list[i].timestamp)
    /\ ~Val(probe).result.valid

\* C13: acceptance -- a line whose slope is within the bound (or max_slope
\* is None), whose endpoints are at least min_distance_candles candle
\* intervals apart and which no candle strictly between its endpoint
\* timestamps crosses is accepted with reason "OK", whatever the candles at
\* or outside the endpoint timestamps.
C13_Acceptance ==
    (/\ probe # None
     /\ ~Steep(Val(probe).line)
     /\ ~Close(Val(probe).line)
     /\ Penetrating(Val(probe).line) = {}) =>
        /\ Val(probe).result.valid
        /\ Val(probe).result.reason = "OK"

\* an upper line accepted although the window holds a candle at an endpoint
\* timestamp whose high is 0.6% above that endpoint, and another candle
\* outside the endpoints
C13_Witness ==
    /\ probe # None
    /\ Val(probe).result.valid
    /\ Val(probe).result.reason = "OK"
    /\ Val(probe).line.type = "upper"
    /\ \E i \in 1..Len(candles_list) :
         /\ candles_list[i].timestamp = Earlier(Val(probe).line).timestamp
         /\ candles_list[i].high = 1006
    /\ \E i \in 1..Len(candles_list) :
         /\ candles_list[i].timestamp > Later(Val(probe).line).timestamp
         /\ candles_list[i].high = 1006

\* C14: degenerate pair -- a call that inserts a pivot returns the new id,
\* and for every resident pivot of its type that has its timestamp
\* create_line yields None, no line with that pair is in upper_lines or
\* lower_lines, and the pair is not in created_line_pairs.
C14_DegeneratePair ==
    [][ next_pivot_id' = next_pivot_id + 1 =>
          /\ ret' = Some(next_pivot_id)
          /\ \A list \in {peaks_list', troughs_list'} :
               \A p, q \in elements(list) :
                 (/\ p.id = next_pivot_id
                  /\ q.id # p.id
                  /\ q.timestamp = p.timestamp) =>
                    /\ create_line(q, p) = None
                    /\ sorted_pair(q.id, p.id) \notin created_line_pairs'
                    /\ sorted_pair(q.id, p.id) \notin resident_pairs' ]_vars

\* the third peak arrived with the timestamp of the second one: it was
\* paired with the first peak and the line is resident, and both peaks of
\* the degenerate pair are resident
C14_Witness ==
    /\ op = "add_pivot"
    /\ ret = Some(2)
    /\ built = 1
    /\ Len(peaks_list) = 3
    /\ peaks_list[2].timestamp = peaks_list[3].timestamp
    /\ peaks_list[1].timestamp < peaks_list[2].timestamp
    /\ Len(upper_lines) >= 1

\* C15: age rule -- when max_age_ms is set, after every add_pivot call every
\* pivot of peaks_list is no older than (timestamp of the last peak) -
\* max_age_ms, and likewise for troughs_list; a pivot leaves its list only
\* when the list ends the call full (the count rule) or when it is strictly
\* older than that cutoff, so a pivot exactly at the cutoff is retained and
\* with max_age_ms = None no pivot is removed for its age.
C15_AgeRule ==
    [][ op' = "add_pivot" =>
          \A pr \in {<<peaks_list, peaks_list'>>, <<troughs_list, troughs_list'>>} :
            /\ config.max_age_ms # None =>
                 \A p \in elements(pr[2]) :
                   p.timestamp >= last_ts(pr[2]) - Val(config.max_age_ms)
            /\ \A q \in elements(pr[1]) \ elements(pr[2]) :
                 \/ Len(pr[2]) = config.max_pivots
                 \/ /\ config.max_age_ms # None
                    /\ Len(pr[2]) > 0
                    /\ q.timestamp < last_ts(pr[2]) - Val(config.max_age_ms) ]_vars

\* under max_pivots = 3 a third peak made the first one too old: the first
\* was removed, the second, exactly at the cutoff, is resident
C15_Witness ==
    /\ op = "add_pivot"
    /\ config.max_age_ms # None
    /\ config.max_pivots = 3
    /\ evicted # {}
    /\ ret = Some(2)
    /\ Len(peaks_list) = 2
    /\ peaks_list[1].timestamp = peaks_list[2].timestamp - Val(config.max_age_ms)

\* C16 as stated: in every state with a resident pivot, no candle of
\* candles_list is older than the oldest resident pivot, states reached
\* before any pivot eviction included.
C16_CandlesWithinSpan ==
    resident_pivots # {} =>
        \A c \in elements(candles_list) :
            \E q \in resident_pivots : q.timestamp <= c.timestamp

\* C16, amended: in every state with a resident pivot, no candle that was
\* in candles_list when a pivot was last evicted is older than the oldest
\* resident pivot.
C16_CandleRetention ==
    \A i \in 1..synced :
        /\ i <= Len(candles_list)
        /\ \E q \in resident_pivots : q.timestamp <= candles_list[i].timestamp

\* a candle that went through the last eviction is resident, a later call
\* evicted nothing and stored a second candle behind it
C16_Witness ==
    /\ op = "add_pivot"
    /\ evicted = {}
    /\ synced = 1
    /\ Len(candles_list) = 2
    /\ resident_pivots # {}

\* C17: line typing -- every line of upper_lines has type upper and two
\* peaks as endpoints, every line of lower_lines has type lower and two
\* troughs as endpoints; no line joins a peak with a trough.
C17_LineTyping ==
    /\ \A line \in elements(upper_lines) :
         /\ line.type = "upper"
         /\ line.point1.type = "peak"
         /\ line.point2.type = "peak"
    /\ \A line \in elements(lower_lines) :
         /\ line.type = "lower"
         /\ line.point1.type = "trough"
         /\ line.point2.type = "trough"

\* a trough arrived between two peaks: the peaks are joined by the only
\* resident line, the trough is resident and joined with neither
C17_Witness ==
    /\ op = "add_pivot"
    /\ ids_of(peaks_list) = {0, 2}
    /\ ids_of(troughs_list) = {1}
    /\ Len(upper_lines) = 1
    /\ lower_lines = <<>>
    /\ built = 1

\* C18: pivot ownership -- every resident pivot id occurs exactly once
\* across peaks_list and troughs_list (never in both, never twice in one),
\* every element of peaks_list has type peak, and within each list the ids
\* are strictly increasing from front to back.
C18_PivotOwnership ==
    /\ ids_of(peaks_list) \cap ids_of(troughs_list) = {}
    /\ \A i, j \in 1..Len(peaks_list) : i < j => peaks_list[i].id < peaks_list[j].id
    /\ \A i, j \in 1..Len(troughs_list) : i < j => troughs_list[i].id < troughs_list[j].id
    /\ \A p \in elements(peaks_list) : p.type = "peak"

\* two peaks and a trough resident, the trough inserted first, the two
\* peaks sharing a timestamp
C18_Witness ==
    /\ op = "add_pivot"
    /\ Len(peaks_list) = 2
    /\ Len(troughs_list) = 1
    /\ troughs_list[1].id = 0
    /\ peaks_list[1].timestamp = peaks_list[2].timestamp
    /\ peaks_list[1].id < peaks_list[2].id

C20_OrderIndependentKey ==
    probe # None =>
        /\ create_line(Val(probe).line.point2, Val(probe).line.point1) # None
        /\ Val(create_line(Val(probe).line.point2, Val(probe).line.point1)).id
             = Val(probe).line.id
        /\ Val(create_line(Val(probe).line.point2, Val(probe).line.point1)).point_ids
             = Val(probe).line.point_ids

-----------------------------------------------------------------------------
(* Direct validator calls on lines at, above and below the zero price *)

FaultPrices == {-1000, 0, 1000}

FaultPoints(id) ==
    [ id : {id}, timestamp : Timestamps, price : FaultPrices, type : {"peak", "trough"} ]

NextFault ==
    \/ \E zz \in ValidateRecords : AddPivotCall(zz)
    \/ \E point1 \in FaultPoints(0), point2 \in FaultPoints(1) : ValidateCall(point1, point2)

SpecFault == InitValidate /\ [][NextFault]_vars

\* C21: rejection is a value, never a fault -- for every line built by
\* create_line and every candle window, lines whose price at an intervening
\* candle is zero or negative included, validate_single_line returns and
\* does not raise.
C21_NeverRaises ==
    probe # None => ~Val(probe).raised

-----------------------------------------------------------------------------
(* The simulation driver (src/test_channel_2.py, simulate_sliding_window) *)

\* if len(window) >= max_pivots: window.pop(0)
window_evict(window, max_pivots) ==
    IF Len(window) >= max_pivots THEN Tail(window) ELSE window

\* one turn of the driver's loop for a pivot of the window's type: the
\* window after the turn and the pairs it builds a line for
simulate_step(window, created_pairs, pivot, max_pivots) ==
    LET trimmed == window_evict(window, max_pivots)
        after == Append(trimmed, pivot)
        current_idx == Len(after)
    IN  [ window |-> after,
          pairs  |-> { sorted_pair(after[i].id, after[current_idx].id) :
                         i \in { j \in 1..(Len(after) - 1) :
                                   sorted_pair(after[j].id, after[current_idx].id)
                                       \notin created_pairs } } ]

\* the timestamps of a list are strictly increasing
StrictlyIncreasing(list) ==
    \A i, j \in 1..Len(list) : i < j => list[i].timestamp < list[j].timestamp

Min(a, b) == IF a <= b THEN a ELSE b

\* every pair a line was built for since the last reset
ever_built == resident_pairs \cup dead_pairs

\* the driver's example flow: a stream of peaks, no candles
StreamConfigs ==
    [ max_pivots              : 1..MaxPivotsBound,
      max_age_ms              : {None, Some(candle_interval_ms)},
      max_slope               : {Some(<<3, 2 * candle_interval_ms>>)},
      min_distance_candles    : {1},
      max_penetration_pct     : {<<3, 10>>},
      max_penetrating_candles : {1} ]

StreamPivots ==
    [ timestamp : { Ts(k) : k \in 0..MaxStreamTick }, price : PeakPrices, type : {"peak"} ]

\* detector.add_pivot({'candle': None, 'pivot': pivot}), the pivot later
\* than every pivot fed before
StreamCall(pivot) ==
    /\ next_pivot_id < MaxStreamIds
    /\ Len(peaks_list) > 0 => pivot.timestamp > last_ts(peaks_list)
    /\ AddPivotEffect([candle |-> None, pivot |-> Some(pivot)])

InitStream == InitWith(StreamConfigs)

NextStream == \E pivot \in StreamPivots : StreamCall(pivot)

SpecStream == InitStream /\ [][NextStream]_vars

\* C22 as stated: for a stream of same-type pivots with strictly increasing
\* timestamps, the call for the k-th pivot builds lines for exactly the pairs
\* of the new pivot with the min(k-1, max_pivots-1) most recent earlier
\* pivots, the pairs of the driver's evict-before-append window, and never
\* for a pair with a pivot evicted in the call.
C22_MatchesDriverAnyAge ==
    [][ next_pivot_id' = next_pivot_id + 1 =>
          \A pr \in {<<peaks_list, peaks_list', troughs_list'>>,
                     <<troughs_list, troughs_list', peaks_list'>>} :
            (pr[2] # pr[1] /\ pr[3] = <<>> /\ StrictlyIncreasing(pr[2])) =>
              /\ pr[2] = simulate_step(pr[1], ever_built, pr[2][Len(pr[2])],
                                       config.max_pivots).window
              /\ ever_built' \ ever_built
                   = simulate_step(pr[1], ever_built, pr[2][Len(pr[2])],
                                   config.max_pivots).pairs
              /\ built' = Min(next_pivot_id' - 1, config.max_pivots - 1)
              /\ \A pair \in ever_built' \ ever_built :
                   pair[1] \notin evicted' /\ pair[2] \notin evicted' ]_vars

\* C22, amended: the same, with max_age_ms = None.
C22_MatchesDriver ==
    [][ (next_pivot_id' = next_pivot_id + 1 /\ config.max_age_ms = None) =>
          \A pr \in {<<peaks_list, peaks_list', troughs_list'>>,
                     <<troughs_list, troughs_list', peaks_list'>>} :
            (pr[2] # pr[1] /\ pr[3] = <<>> /\ StrictlyIncreasing(pr[2])) =>
              /\ pr[2] = simulate_step(pr[1], ever_built, pr[2][Len(pr[2])],
                                       config.max_pivots).window
              /\ ever_built' \ ever_built
                   = simulate_step(pr[1], ever_built, pr[2][Len(pr[2])],
                                   config.max_pivots).pairs
              /\ built' = Min(next_pivot_id' - 1, config.max_pivots - 1)
              /\ \A pair \in ever_built' \ ever_built :
                   pair[1] \notin evicted' /\ pair[2] \notin evicted' ]_vars

\* the fifth peak of a stream under max_pivots = 3 and no age limit: the
\* window is 3-4-5 (ids 2, 3, 4), the second peak was evicted in the call
\* and lines were built with the third and the fourth
C22_Witness ==
    /\ op = "add_pivot"
    /\ config.max_age_ms = None
    /\ config.max_pivots = 3
    /\ ret = Some(4)
    /\ troughs_list = <<>>
    /\ StrictlyIncreasing(peaks_list)
    /\ evicted = {1}
    /\ ids_of(peaks_list) = {2, 3, 4}
    /\ built = 2

\* C23: check order -- validate_single_line checks the slope, then the
\* spacing, then the penetration, and returns the reason of the first check
\* that fails: a line failing both the slope and the spacing bound gets the
\* slope reason, and a penetration reason (or "OK") is returned only when
\* slope and spacing both pass.
C23_CheckOrder ==
    probe # None =>
        Val(probe).result.reason =
            IF Steep(Val(probe).line) THEN "slope too large"
            ELSE IF Close(Val(probe).line) THEN "points too close"
            ELSE IF Cardinality(Penetrating(Val(probe).line))
                        > config.max_penetrating_candles
            THEN "too many penetrating candles"
            ELSE IF TooDeep(Val(probe).line) THEN "penetration too deep"
            ELSE "OK"

\* a line that is both too steep and too short, probed against a non-empty
\* candle window, reported with the slope reason
C23_Witness ==
    /\ probe # None
    /\ Steep(Val(probe).line)
    /\ Close(Val(probe).line)
    /\ candles_list # <<>>
    /\ ~Val(probe).result.valid
    /\ Val(probe).result.reason = "slope too large"

\* the candles of a list that are not older than every resident pivot of
\* the lists given, in order
not_older(candles, peaks, troughs) ==
    LET Keep(c) == \E q \in elements(peaks) \cup elements(troughs) :
                       q.timestamp <= c.timestamp
    IN  SelectSeq(candles, Keep)

\* list b is list a, or list a with one element appended
SameOrOneMore(a, b) ==
    \/ b = a
    \/ Len(b) = Len(a) + 1 /\ SubSeq(b, 1, Len(a)) = a

\* C24: candle eviction is minimal -- a call that evicts no pivot removes
\* no candle; a call that evicts a pivot removes exactly the candles
\* strictly older than min(first peak timestamp, first trough timestamp)
\* over the non-empty lists, and the candles kept stay in their order.
C24_CandleEvictionMinimal ==
    [][ op' = "add_pivot" =>
          IF evicted' = {}
          THEN SameOrOneMore(candles_list, candles_list')
          ELSE /\ SameOrOneMore(not_older(candles_list, peaks_list', troughs_list'),
                                candles_list')
               /\ not_older(candles_list', peaks_list', troughs_list') = candles_list' ]_vars

\* a call that evicted a pivot removed the older candle and kept the one
\* at exactly the oldest resident pivot's timestamp
C24_Witness ==
    /\ op = "add_pivot"
    /\ evicted # {}
    /\ dropped = 1
    /\ Len(candles_list) = 1
    /\ resident_pivots # {}
    /\ \A q \in resident_pivots : q.timestamp >= candles_list[1].timestamp
    /\ \E q \in resident_pivots : q.timestamp = candles_list[1].timestamp

\* C25: per-list independence -- a call that adds a peak leaves troughs_list
\* exactly as it was and a call that adds a trough leaves peaks_list exactly
\* as it was, under the count rule and the age rule alike; the age cutoff
\* of a list comes from that list's own newest pivot.
C25_PerListIndependence ==
    [][ next_pivot_id' = next_pivot_id + 1 =>
          /\ next_pivot_id \in ids_of(peaks_list') => troughs_list' = troughs_list
          /\ next_pivot_id \in ids_of(troughs_list') => peaks_list' = peaks_list ]_vars

\* a trough has just arrived more than max_age_ms after a peak that is
\* still resident
C25_Witness ==
    /\ op = "add_pivot"
    /\ config.max_age_ms # None
    /\ ret # None
    /\ Val(ret) \in ids_of(troughs_list)
    /\ \E i \in 1..Len(peaks_list) :
          peaks_list[i].timestamp
              < troughs_list[Len(troughs_list)].timestamp - Val(config.max_age_ms)

\* C26: line factory geometry -- for two pivots with different timestamps
\* the line returned passes through both of them (slope * timestamp +
\* intercept = price at each endpoint), and the factory called on the
\* pivots in the other order returns the same slope and intercept.
C26_LineGeometry ==
    probe # None =>
        LET line == Val(probe).line
            swapped == create_line(line.point2, line.point1)
        IN  /\ line_price(line, line.point1.timestamp) = RInt(line.point1.price)
            /\ line_price(line, line.point2.timestamp) = RInt(line.point2.price)
            /\ swapped # None
            /\ Val(swapped).slope = line.slope
            /\ Val(swapped).intercept = line.intercept

\* a sloped line whose first point is the later one and whose endpoints
\* both lie away from timestamp zero
C26_Witness ==
    /\ probe # None
    /\ Val(probe).line.slope # RInt(0)
    /\ Val(probe).line.point1.timestamp > Val(probe).line.point2.timestamp
    /\ Val(probe).line.point2.timestamp > 0
    /\ Val(probe).line.intercept # RInt(Val(probe).line.point1.price)

\* the candles of candles_list strictly between the endpoint timestamps of
\* a line, by index
InsideSpan(line) ==
    { i \in 1..Len(candles_list) :
        /\ Earlier(line).timestamp < candles_list[i].timestamp
        /\ candles_list[i].timestamp < Later(line).timestamp }

\* C27: positive denominator -- when both endpoint prices of a line are
\* strictly positive, at every candle timestamp strictly between the
\* endpoint timestamps the line price lies between the two endpoint prices
\* and is strictly positive, so the penetration percentage is never a
\* division by zero, and it is strictly positive for every crossing candle.
C27_PositiveDenominator ==
    (probe # None /\ Val(probe).line.point1.price > 0 /\ Val(probe).line.point2.price > 0) =>
        LET line == Val(probe).line
            lo == Min(line.point1.price, line.point2.price)
            hi == IF line.point1.price >= line.point2.price
                  THEN line.point1.price ELSE line.point2.price
        IN  /\ ~Val(probe).raised
            /\ \A i \in InsideSpan(line) :
                 LET lp == line_price(line, candles_list[i].timestamp)
                 IN  /\ ~RLt(lp, RInt(lo))
                     /\ ~RGt(lp, RInt(hi))
                     /\ RGt(lp, RInt(0))
                     /\ lp[2] # 0
                     /\ penetrates(line, candles_list[i]) =>
                          RGt(penetration_pct(line, candles_list[i]), RInt(0))

\* a sloped line with a crossing candle strictly inside its span, where the
\* line price lies strictly between the endpoint prices
C27_Witness ==
    /\ probe # None
    /\ Val(probe).line.point1.price # Val(probe).line.point2.price
    /\ \E i \in InsideSpan(Val(probe).line) :
         /\ penetrates(Val(probe).line, candles_list[i])
         /\ line_price(Val(probe).line, candles_list[i].timestamp)[2] = 2

-----------------------------------------------------------------------------
(* Candle-aligned feeds: every pivot comes with a candle that is not older *)

\* records whose pivot, if any, is delivered together with a candle at or
\* after the pivot's timestamp
AlignedRecords ==
    { zz \in Records :
        zz.pivot # None =>
            /\ zz.candle # None
            /\ Val(zz.pivot).timestamp <= Val(zz.candle).timestamp }

AlignedConfigs == { cfg \in Configs : cfg.max_pivots >= 2 }

\* detector.add_pivot(zigzag_output) on a candle-aligned record
AlignedCall(zz) ==
    /\ InOrder(zz)
    /\ zz.candle # None => Len(candles_list) < MaxAlignedCandles
    /\ zz.pivot # None => next_pivot_id < MaxIds
    /\ AddPivotEffect(zz)

InitAligned == InitWith(AlignedConfigs)

NextAligned ==
    \/ \E zz \in AlignedRecords : AlignedCall(zz)
    \/ ResetCall

SpecAligned == InitAligned /\ [][NextAligned]_vars

resident_lines == elements(upper_lines) \cup elements(lower_lines)

\* C28: re-validation is outcome-preserving for old lines -- when candles
\* arrive in non-decreasing time order and every pivot comes with a candle
\* at or after the pivot's timestamp, an add_pivot call never removes a
\* line that was resident before it unless the call evicted one of the
\* line's endpoint pivots.
C28_RevalidationPreserves ==
    [][ op' = "add_pivot" =>
          \A line \in resident_lines :
              ({line.point_ids[1], line.point_ids[2]} \cap evicted' = {})
                  => line \in resident_lines' ]_vars

\* a third pivot arrived with a deeply crossing candle at the later
\* endpoint of an older line that has a candle inside its span; the older
\* line went through the re-validation pass and is still resident
C28_Witness ==
    /\ op = "add_pivot"
    /\ ret = Some(2)
    /\ Len(candles_list) = 3
    /\ candles_list[3].high = 1006
    /\ \E line \in elements(upper_lines) :
         /\ line.point_ids = <<0, 1>>
         /\ InsideSpan(line) # {}
         /\ candles_list[3].timestamp = Later(line).timestamp
         /\ built > 0

\* C29: generated-pairs bookkeeping -- after every add_pivot call
\* created_line_pairs is exactly the set of point_ids of the lines in
\* upper_lines and lower_lines, and the point_ids of every resident line
\* are in ascending id order (so the key discarded on rejection or
\* eviction is the key added at generation).
C29_PairsBookkeeping ==
    op = "add_pivot" =>
        /\ created_line_pairs = { line.point_ids : line \in resident_lines }
        /\ \A line \in resident_lines : line.point_ids[1] < line.point_ids[2]

\* a call that evicted an older line and built a line which the validation
\* pass rejected: both discards ran and emptied created_line_pairs
C29_Witness ==
    /\ op = "add_pivot"
    /\ cascaded # {}
    /\ built > 0
    /\ resident_lines = {}
    /\ created_line_pairs = {}
    /\ Cardinality(dead_pairs) >= 2

\* C30: the dedup check never skips a candidate -- in every add_pivot call
\* that inserts a pivot, no pair of created_line_pairs contains the new id
\* when the generation loop starts, so the number of lines the call builds
\* equals the number of other resident pivots of the new pivot's type whose
\* timestamp differs from the new pivot's.
C30_DedupNeverSkips ==
    [][ (op' = "add_pivot" /\ ret' # None) =>
          /\ \A pair \in created_line_pairs : Val(ret') \notin {pair[1], pair[2]}
          /\ \A list \in {peaks_list', troughs_list'} :
               \A p \in elements(list) :
                 p.id = Val(ret') =>
                   built' = Cardinality({ q \in elements(list) :
                                            /\ q.id # p.id
                                            /\ q.timestamp # p.timestamp }) ]_vars

\* the third trough met a non-empty created_line_pairs and was paired with
\* both older troughs
C30_Witness ==
    /\ op = "add_pivot"
    /\ ret = Some(2)
    /\ built = 2
    /\ Len(troughs_list) = 3
    /\ created_line_pairs = {<<0, 1>>, <<0, 2>>, <<1, 2>>}

\* list b is what is left of list a after some of its oldest elements are
\* removed
IsSuffix(b, a) ==
    /\ Len(b) <= Len(a)
    /\ b = SubSeq(a, Len(a) - Len(b) + 1, Len(a))

\* one call's effect on a pivot list: a suffix of the list before, or a
\* suffix of the list before with the pivot of the call appended, the
\* count rule having popped at most once
FifoStep(before, after, new_id, max_pivots) ==
    \/ IsSuffix(after, before)
    \/ /\ Len(after) > 0
       /\ after[Len(after)].id = new_id
       /\ IsSuffix(after, Append(before, after[Len(after)]))
       /\ Len(before) + 1
            - Len(count_rule(Append(before, after[Len(after)]), max_pivots)) <= 1

\* C31: FIFO residency -- with pivots of each type arriving in
\* non-decreasing time order, every add_pivot call leaves in peaks_list
\* (and in troughs_list) a contiguous suffix of the pivots inserted since
\* the last reset: the count rule and the age rule only remove the oldest
\* elements, the ids of a list stay ascending, and the count rule removes at
\* most one pivot per call.
C31_FifoResidency ==
    [][ op' = "add_pivot" =>
          /\ FifoStep(peaks_list, peaks_list', next_pivot_id, config.max_pivots)
          /\ FifoStep(troughs_list, troughs_list', next_pivot_id, config.max_pivots)
          /\ \A list \in {peaks_list', troughs_list'} :
               \A i, j \in 1..Len(list) : i < j => list[i].id < list[j].id ]_vars

\* the age rule removed the two oldest peaks in one call and left only the
\* peak just inserted
C31_Witness ==
    /\ op = "add_pivot"
    /\ ret = Some(2)
    /\ config.max_pivots = 3
    /\ Cardinality(evicted) = 2
    /\ Len(peaks_list) = 1
    /\ peaks_list[1].id = 2

-----------------------------------------------------------------------------
(* Validator calls on a detector that holds pivots, candles and lines *)

QueryConfigs == { cfg \in Configs : cfg.max_pivots = 2 /\ cfg.max_age_ms = None }

InitQuery == InitWith(QueryConfigs)

\* add_pivot calls, and between them validate_single_line on the line
\* through any two resident pivots of one type, in either order
NextQuery ==
    \/ \E zz \in Records : AddPivotCall(zz)
    \/ \E point1, point2 \in resident_pivots : ValidateCall(point1, point2)

SpecQuery == InitQuery /\ [][NextQuery]_vars

-----------------------------------------------------------------------------
(* add_pivot called from two threads of a host, with and without the
   exclusive lock per call *)

\* calls begun by the two callers together
MaxCalls == 3

ThreadConfigs == { cfg \in Configs : cfg.max_pivots <= 2 /\ cfg.max_age_ms = None }

ThreadPivots == [ timestamp : Timestamps, price : {1000}, type : {"peak", "trough"} ]

\* the history variables, which the statements of a call in progress leave alone
history == <<evicted, cascaded, dropped, built, issued, dead_pairs, clock, fresh,
             fresh_ret, epoch, probe, synced>>

\* a caller enters add_pivot with a pivot-only record; under the lock
\* regime it first acquires the instance lock
BeginCall(t, pivot) ==
    /\ threads.pc[t] = "idle"
    /\ threads.calls < MaxCalls
    /\ threads.locked => threads.holder = 0
    /\ threads' = [threads EXCEPT !.holder = IF threads.locked THEN t ELSE 0,
                                  !.calls = threads.calls + 1,
                                  !.pc[t] = "read_id",
                                  !.pivot[t] = Some(pivot)]
    /\ UNCHANGED <<config, peaks_list, troughs_list, candles_list, next_pivot_id,
                   upper_lines, lower_lines, created_line_pairs, op, ret, history>>

\* pivot_id = self._next_pivot_id
ReadId(t) ==
    /\ threads.pc[t] = "read_id"
    /\ threads' = [threads EXCEPT !.pivot_id[t] = next_pivot_id,
                                  !.pc[t] = "inc_id"]
    /\ UNCHANGED <<config, peaks_list, troughs_list, candles_list, next_pivot_id,
                   upper_lines, lower_lines, created_line_pairs, op, ret, history>>

\* mutant of IncId: the counter is left as it was
IncId_keeps_counter(t) ==
    /\ threads.pc[t] = "inc_id"
    /\ threads' = [threads EXCEPT !.pc[t] = "append"]
    /\ UNCHANGED <<config, peaks_list, troughs_list, candles_list, next_pivot_id,
                   upper_lines, lower_lines, created_line_pairs, op, ret, history>>

\* self._next_pivot_id += 1
IncId(t) ==
    /\ threads.pc[t] = "inc_id"
    /\ next_pivot_id' = next_pivot_id + 1
    /\ threads' = [threads EXCEPT !.pc[t] = "append"]
    /\ UNCHANGED <<config, peaks_list, troughs_list, candles_list,
                   upper_lines, lower_lines, created_line_pairs, op, ret, history>>

\* pivot_full = {...}; self.peaks_list.append(pivot_full) or
\* self.troughs_list.append(pivot_full)
AppendPivot(t) ==
    /\ threads.pc[t] = "append"
    /\ LET pivot == Val(threads.pivot[t])
           pivot_full == [ id        |-> threads.pivot_id[t],
                           timestamp |-> pivot.timestamp,
                           price     |-> pivot.price,
                           type      |-> pivot.type ]
       IN  IF pivot.type = "peak"
           THEN peaks_list' = Append(peaks_list, pivot_full)
                /\ UNCHANGED troughs_list
           ELSE troughs_list' = Append(troughs_list, pivot_full)
                /\ UNCHANGED peaks_list
    /\ threads' = [threads EXCEPT !.pc[t] = "cleanup"]
    /\ UNCHANGED <<config, candles_list, next_pivot_id,
                   upper_lines, lower_lines, created_line_pairs, op, ret, history>>

\* self._cleanup_old_pivots()
CleanupStep(t) ==
    /\ threads.pc[t] = "cleanup"
    /\ \E r \in {cleanup_old_pivots(Self)} :
         /\ peaks_list' = r.peaks_list
         /\ troughs_list' = r.troughs_list
         /\ candles_list' = r.candles_list
         /\ upper_lines' = r.upper_lines
         /\ lower_lines' = r.lower_lines
         /\ created_line_pairs' = r.created_line_pairs
    /\ threads' = [threads EXCEPT !.pc[t] = "generate"]
    /\ UNCHANGED <<config, next_pivot_id, op, ret, history>>

\* self._generate_new_lines(pivot_id); return pivot_id; under the lock
\* regime the lock is released on return
GenerateStep(t) ==
    /\ threads.pc[t] = "generate"
    /\ \E r \in {generate_new_lines(Self, threads.pivot_id[t])} :
         /\ upper_lines' = r.upper_lines
         /\ lower_lines' = r.lower_lines
         /\ created_line_pairs' = r.created_line_pairs
    /\ op' = "add_pivot"
    /\ ret' = Some(threads.pivot_id[t])
    /\ threads' = [threads EXCEPT !.pc[t] = "idle",
                                  !.holder = 0,
                                  !.pivot[t] = None]
    /\ UNCHANGED <<config, peaks_list, troughs_list, candles_list, next_pivot_id,
                   history>>

InitThreads ==
    /\ InitDetector(ThreadConfigs)
    /\ \E locked \in BOOLEAN : threads = NoCallers(locked)

NextThreads ==
    \E t \in Callers :
        \/ \E pivot \in ThreadPivots : BeginCall(t, pivot)
        \/ ReadId(t)
        \/ IncId(t)
        \/ AppendPivot(t)
        \/ CleanupStep(t)
        \/ GenerateStep(t)

SpecThreads == InitThreads /\ [][NextThreads]_vars

\* no two resident pivots share an id
UniqueIds ==
    /\ \A i, j \in 1..Len(peaks_list) : i # j => peaks_list[i].id # peaks_list[j].id
    /\ \A i, j \in 1..Len(troughs_list) : i # j => troughs_list[i].id # troughs_list[j].id
    /\ ids_of(peaks_list) \cap ids_of(troughs_list) = {}

\* both lists are within max_pivots
WindowBounded ==
    /\ Len(peaks_list) <= config.max_pivots
    /\ Len(troughs_list) <= config.max_pivots

\* every resident line joins two resident pivots, and created_line_pairs
\* holds exactly the pairs of the resident lines
CascadeDone ==
    /\ \A line \in resident_lines :
         {line.point1, line.point2} \subseteq resident_pivots
    /\ created_line_pairs = { line.point_ids : line \in resident_lines }

\* C33: add_pivot as one transaction -- when every call runs under the
\* instance lock, in every interleaving of two callers the resident pivots
\* have unique ids, the lists are within max_pivots whenever a call is at
\* its line-generation step or no call is in progress, and between calls
\* every resident line joins two resident pivots.  (Without the lock a
\* state with two pivots sharing an id and a list longer than max_pivots
\* at a line-generation step is reachable: C33_Witness.)
C33_LockedIsAtomic ==
    threads.locked =>
        /\ UniqueIds
        /\ (\A t \in Callers : threads.pc[t] \in {"idle", "generate"}) => WindowBounded
        /\ (\A t \in Callers : threads.pc[t] = "idle") => CascadeDone
        /\ next_pivot_id = threads.calls
             - Cardinality({ t \in Callers : threads.pc[t] \in {"read_id", "inc_id"} })

\* without the lock: a caller is at its line-generation step while two
\* resident pivots share an id and a list is longer than max_pivots
C33_Witness ==
    /\ ~threads.locked
    /\ \E t \in Callers : threads.pc[t] = "generate"
    /\ ~UniqueIds
    /\ ~WindowBounded

====
